---- MODULE Spec2Model ----
(***************************************************************************)
(* Model of the two HubSpot reporting scripts:                             *)
(*   src/hubspot_weekly_report_dynamic_2026.py  (owner/stage report)       *)
(*   src/weekly_product_report.py               (product report)           *)
(* Each part of the programs is a specification of its own over the       *)
(* variables it uses; the variables of the other parts stay parked.        *)
(***************************************************************************)
EXTENDS Integers, Sequences, FiniteSets, TLC

VARIABLES
    \* ---- product report: the product sheets of the workbook ----
    pwb,        \* product -> sheet, a sequence of rows; row 1 is the header
    pbase,      \* history: pwb before the current streak of runs for one week
    pweek,      \* history: snapshot week of the last run ("" before any run)
    prows,      \* history: rows_by_product of the last run
    pstreak,    \* history: number of consecutive runs for pweek
    pruns,      \* number of runs so far
    \* ---- owner/stage report: write_snapshot_to_excel ----
    odisk,      \* the workbook file: [exists, sheets], sheets: title -> sheet
    owb,        \* the workbook in memory during a run: title -> sheet
    opc,        \* "idle", "writing" (inside the owner loop) or "failed"
    olabel,     \* week_label of the current run, or of the last one saved
    odefault,   \* default_stage_order of the current (or last) run
    odone,      \* owner names already written in the current run
    owritten,   \* history: <<title, stage, amount>> left by the current run
    osame,      \* history: the run before this one was saved with the same label
    oruns,      \* number of runs started
    \* ---- paginated fetch with backoff ----
    fwho,       \* the fetcher that runs
    fpages,     \* the number of pages the server holds
    fpc,        \* "run", "done" (returned) or "error" (raised)
    fafter,     \* the cursor variable of the loop
    fattempt,   \* the attempt counter of the loop
    facc,       \* the results accumulated
    fhist,      \* history: the statuses answered to the request being retried
    fsleeps,    \* history: the sleeps made for the request being retried
    fsent,      \* history: the cursor the last request carried
    fgot,       \* history: the number of pages received
    fdecision,  \* history: what the loop did with the last answer
    fslept,     \* history: whether it slept after the last answer
    ferr,       \* the status of the HTTP error raised (0: none)
    fperm,      \* history: a status other than 2xx, 429 and 5xx was answered
    \* ---- build_rows ----
    rlist,      \* the deals processed so far
    rseen,      \* seen: the (product, deal id) pairs emitted
    rout,       \* rows_by_product: product -> rows, each <<product, deal id>>
    \* ---- aggregate_amounts_by_owner_and_stage ----
    alist,      \* the deals processed so far
    adata,      \* data: <<owner name, stage label>> -> sum
    apc,        \* "run" or the exception that ended the aggregation
    \* ---- batch_read_deal_company_primary ----
    cresult,    \* result: deal id -> company id
    clast,      \* history: the last record read
    cseen,      \* number of records read
    \* ---- lookups over candidate paths (product report) ----
    lwho,       \* the lookup that runs
    lsize,      \* owner pages the server holds / batches of deal ids
    lbatch,     \* the batch being read (1 for the owners)
    lidx,       \* index of the candidate path tried next
    ldata,      \* data
    llast_err,  \* last_err: <<path, status>> of the last failure
    lpc,        \* "run", "done" (returned) or "error" (RuntimeError raised)
    lreq,       \* history: <<batch, path, status>> of every request
    lused,      \* history: the data processed, one per batch
    lowners,    \* the ids of the owner map returned
    lerr,       \* the error the RuntimeError names
    \* ---- the workbook file during the runs of main ----
    dprog,      \* the program that runs
    dfile,      \* the workbook file: [exists, weeks]
    dpc,        \* position of main: "idle", "fetching", "fetched", "opened", "mutated", "failed"
    dweek,      \* the week of the snapshot of the current run
    dmem,       \* the workbook in memory: the weeks it holds
    dbefore,    \* history: the file when the current run started
    dwrites,    \* history: writes of the file made by the current run
    druns,      \* number of runs started
    \* ---- the display name of an owner (owner/stage report) ----
    nrec,       \* the owner record read last
    nname,      \* owners_map[owner_id]: the name resolved for it
    npc,        \* "idle", "resolved", "written" or the exception raised
    ntitle,     \* the title of the sheet the name was given
    ncount      \* number of records read

varsProduct == <<pwb, pbase, pweek, prows, pstreak, pruns>>
varsOwner == <<odisk, owb, opc, olabel, odefault, odone, owritten, osame, oruns>>
varsFetch == <<fwho, fpages, fpc, fafter, fattempt, facc, fhist, fsleeps, fsent, fgot,
               fdecision, fslept, ferr, fperm>>
varsRows == <<rlist, rseen, rout>>
varsAgg == <<alist, adata, apc>>
varsAssoc == <<cresult, clast, cseen>>

varsLookup == <<lwho, lsize, lbatch, lidx, ldata, llast_err, lpc, lreq, lused, lowners, lerr>>

varsDisk == <<dprog, dfile, dpc, dweek, dmem, dbefore, dwrites, druns>>

varsNames == <<nrec, nname, npc, ntitle, ncount>>

vars == <<varsProduct, varsOwner, varsFetch, varsRows, varsAgg, varsAssoc, varsLookup, varsDisk, varsNames>>

\* The value of an empty cell or a missing value (Python None).
NoVal == "<None>"

(***************************************************************************)
(* Generic helpers                                                         *)
(***************************************************************************)
RECURSIVE SeqsUpTo(_, _)
\* all sequences over S of length at most n
SeqsUpTo(S, n) ==
    IF n = 0 THEN {<<>>}
    ELSE LET shorter == SeqsUpTo(S, n - 1)
         IN  shorter \cup {Append(s, x) : s \in {t \in shorter : Len(t) = n - 1}, x \in S}

Range(s) == {s[i] : i \in DOMAIN s}

NoDup(s) == \A i, j \in DOMAIN s : i # j => s[i] # s[j]

Reverse(s) == [i \in 1..Len(s) |-> s[Len(s) + 1 - i]]

(***************************************************************************)
(* PRODUCT REPORT: replace_rows_for_snapshot on the product sheets         *)
(***************************************************************************)
MaxRuns == 2
MaxRowsPerRun == 2

Products == {"Tapix", "EcoTrack"}
Weeks == {"2026-01-05", "2026-01-12"}
DealIds == {"d1", "d2"}

\* A sheet row, reduced to its first cell (snapshot_week_start) and deal_id.
HeaderRow == [week |-> "snapshot_week_start", deal |-> "deal_id"]
DataRow(w, d) == [week |-> w, deal |-> d]

\* str(r[0]) of a cell holding a string is the string.
PyStr(v) == v

\* ws.iter_rows(min_row=2) with the test of lines 396-399: the indices to delete,
\* in ascending order.
RECURSIVE ToDeleteFrom(_, _, _)
ToDeleteFrom(ws, i, w) ==
    IF i > Len(ws) THEN <<>>
    ELSE IF ws[i].week = NoVal THEN ToDeleteFrom(ws, i + 1, w)
    ELSE IF PyStr(ws[i].week) = w THEN <<i>> \o ToDeleteFrom(ws, i + 1, w)
    ELSE ToDeleteFrom(ws, i + 1, w)

ToDelete(ws, w) == ToDeleteFrom(ws, 2, w)

\* ws.delete_rows(idx, 1): the rows below move up by one.
DeleteRow(ws, idx) ==
    IF idx \in 1..Len(ws)
    THEN [j \in 1..(Len(ws) - 1) |-> IF j < idx THEN ws[j] ELSE ws[j + 1]]
    ELSE ws

RECURSIVE DeleteEach(_, _)
\* delete the rows at the indices of seq idxs, one after the other, in that order
DeleteEach(ws, idxs) ==
    IF idxs = <<>> THEN ws
    ELSE DeleteEach(DeleteRow(ws, Head(idxs)), Tail(idxs))

\* a deletion loop that walks to_delete in ascending order
DeleteAllForward(ws, to_delete) == DeleteEach(ws, to_delete)

\* for i in reversed(to_delete): ws.delete_rows(i, 1)
DeleteAll(ws, to_delete) == DeleteEach(ws, Reverse(to_delete))

\* for row in rows: ws.append(row)   (append writes below the last used row)
AppendAll(ws, rows) == ws \o rows

replace_rows_for_snapshot(ws, rows, w) ==
    AppendAll(DeleteAll(ws, ToDelete(ws, w)), rows)

\* build_rows gives every row the run's snapshot week and lets a deal appear once
\* per product.
RowSets(w) ==
    {[i \in DOMAIN s |-> DataRow(w, s[i])] :
        s \in {t \in SeqsUpTo(DealIds, MaxRowsPerRun) : NoDup(t)}}

\* The sheets a run may find: a new one, one holding an earlier week, one with
\* a row whose first cell is empty.
ExistingSheets ==
    { <<HeaderRow>>,
      <<HeaderRow, DataRow("2026-01-05", "d1"), DataRow("2025-12-29", "d2"),
        DataRow("2026-01-05", "d2")>>,
      <<HeaderRow, DataRow(NoVal, "d1"), DataRow("2026-01-12", "d1"),
        DataRow("2026-01-12", "d2"), DataRow("2025-12-29", "d1")>> }

InitProduct ==
    /\ pwb \in [Products -> ExistingSheets]
    /\ pbase = pwb
    /\ pweek = ""
    /\ prows = [p \in Products |-> <<>>]
    /\ pstreak = 0
    /\ pruns = 0
    \* the other parts are parked
    /\ odisk = [exists |-> FALSE, sheets |-> <<>>] /\ owb = <<>> /\ opc = "parked" /\ olabel = "" /\ odefault = <<>> /\ odone = {} /\ owritten = {} /\ osame = FALSE /\ oruns = 0
    /\ fwho = "parked" /\ fpages = 0 /\ fpc = "parked" /\ fafter = 0 /\ fattempt = 0 /\ facc = <<>> /\ fhist = <<>> /\ fsleeps = <<>> /\ fsent = 0 /\ fgot = 0 /\ fdecision = "none" /\ fslept = FALSE /\ ferr = 0 /\ fperm = FALSE
    /\ rlist = <<>> /\ rseen = {} /\ rout = <<>>
    /\ alist = <<>> /\ adata = <<>> /\ apc = "parked"
    /\ cresult = <<>> /\ clast = <<>> /\ cseen = 0
    /\ lwho = "parked" /\ lsize = 0 /\ lbatch = 0 /\ lidx = 0 /\ ldata = <<>> /\ llast_err = <<>> /\ lpc = "parked" /\ lreq = <<>> /\ lused = <<>> /\ lowners = {} /\ lerr = <<>>
    /\ dprog = "parked" /\ dfile = <<>> /\ dpc = "parked" /\ dweek = "" /\ dmem = {} /\ dbefore = <<>> /\ dwrites = 0 /\ druns = 0
    /\ nrec = <<>> /\ nname = <<>> /\ npc = "parked" /\ ntitle = <<>> /\ ncount = 0

\* main, lines 635-640: every product sheet gets the run's rows for the week.
RunProductReport ==
    /\ pruns < MaxRuns
    /\ \E w \in Weeks : \E rbp \in [Products -> RowSets(w)] :
        /\ pwb' = [p \in Products |-> replace_rows_for_snapshot(pwb[p], rbp[p], w)]
        /\ pbase' = IF w = pweek THEN pbase ELSE pwb
        /\ pstreak' = IF w = pweek THEN pstreak + 1 ELSE 1
        /\ pweek' = w
        /\ prows' = rbp
    /\ pruns' = pruns + 1
    /\ UNCHANGED <<varsOwner, varsFetch, varsRows, varsAgg, varsAssoc, varsLookup, varsDisk, varsNames>>

NextProduct == RunProductReport

SpecProduct == InitProduct /\ [][NextProduct]_vars

\* the rows of a sheet for week w, and the others, each in sheet order
RowsOfWeek(ws, w) == SelectSeq(ws, LAMBDA r : r.week = w)
RowsNotOfWeek(ws, w) == SelectSeq(ws, LAMBDA r : r.week # w)

\* C1: after replace_rows_for_snapshot(ws, rows, W) the rows of week W are exactly
\* `rows`, in order, and every other row is still there, unchanged and in the same
\* relative order; a streak of runs for W leaves the sheet as if only the last run
\* of the streak had happened on the sheet the streak started from.
C1_ReplaceIsIdempotent ==
    pstreak >= 1 =>
        \A p \in Products :
            /\ RowsOfWeek(pwb[p], pweek) = prows[p]
            /\ RowsNotOfWeek(pwb[p], pweek) = RowsNotOfWeek(pbase[p], pweek)
            /\ pwb[p] = replace_rows_for_snapshot(pbase[p], prows[p], pweek)

\* a second run for the same week, on a sheet that held two adjacent rows of the
\* week and rows of other weeks
C1_Witness ==
    /\ pstreak = 2
    /\ \E p \in Products :
        /\ Len(prows[p]) = 2
        /\ Len(RowsNotOfWeek(pbase[p], pweek)) >= 3
        /\ Len(RowsOfWeek(pbase[p], pweek)) = 2

(***************************************************************************)
(* OWNER/STAGE REPORT: ensure_sheet and write_snapshot_to_excel            *)
(***************************************************************************)
MaxORuns == 2

\* Sheet titles and owner names are sequences of characters.
Al == <<"A", "l">>
LongName == [i \in 1..32 |-> "x"]
Unassigned == <<"U", "n", "a", "s", "s", "i", "g", "n", "e", "d">>
OwnerNames == {Al, LongName}

WeekLabels == {"2026-W01", "2026-W02"}
Stages == {"Lead", "Won", "Lost"}
DefaultOrders == {<<"Lead", "Won">>}

\* stage_sums of one owner: a dict in insertion order, one item at least
\* (aggregate_amounts_by_owner_and_stage creates an owner with a stage).
StageSums ==
    { <<<<"Lead", 1>>>>,
      <<<<"Won", 2>>>>,
      <<<<"Lost", 1>>, <<"Lead", 2>>>>,
      <<<<"Won", 1>>, <<"Lost", 2>>>> }

SetMax(S) == CHOOSE x \in S : \A y \in S : y <= x
SetMin(S) == CHOOSE x \in S : \A y \in S : x <= y

\* ---- a worksheet: its text cells and its number cells, each keyed <<row, column>>
EmptySheet == [txt |-> <<>>, num |-> <<>>]

CellKeys(ws) == DOMAIN ws.txt \cup DOMAIN ws.num

\* openpyxl max_row / max_column: 1 on a sheet without cells
MaxRowOf(ws) == IF CellKeys(ws) = {} THEN 1 ELSE SetMax({k[1] : k \in CellKeys(ws)})
MaxColOf(ws) == IF CellKeys(ws) = {} THEN 1 ELSE SetMax({k[2] : k \in CellKeys(ws)})

TxtAt(ws, r, c) == IF <<r, c>> \in DOMAIN ws.txt THEN ws.txt[<<r, c>>] ELSE NoVal

Without(f, k) == [x \in DOMAIN f \ {k} |-> f[x]]

\* ws.cell(row=r, column=c, value=v) for a string and for a number
SetTxt(ws, r, c, v) ==
    [txt |-> (<<r, c>> :> v) @@ ws.txt, num |-> Without(ws.num, <<r, c>>)]
SetNum(ws, r, c, v) ==
    [txt |-> Without(ws.txt, <<r, c>>), num |-> (<<r, c>> :> v) @@ ws.num]

\* ---- ensure_sheet
TitleLimit == 31
ForbiddenChars == {"\\", "/", "?", "*", "[", "]", ":"}

Sanitize(title) ==
    [i \in DOMAIN title |-> IF title[i] \in ForbiddenChars THEN " " ELSE title[i]]

RECURSIVE StripLeft(_)
StripLeft(s) == IF s # <<>> /\ Head(s) = " " THEN StripLeft(Tail(s)) ELSE s
RECURSIVE StripRight(_)
StripRight(s) ==
    IF s # <<>> /\ s[Len(s)] = " " THEN StripRight(SubSeq(s, 1, Len(s) - 1)) ELSE s
Strip(s) == StripRight(StripLeft(s))

\* safe = title with the forbidden characters blanked, stripped, or "Unassigned"
SafeTitle(title) ==
    LET s == Strip(Sanitize(title)) IN IF s = <<>> THEN Unassigned ELSE s

Truncate(s, n) == SubSeq(s, 1, IF Len(s) < n THEN Len(s) ELSE n)

LowerChar(ch) ==
    CASE ch = "A" -> "a" [] ch = "B" -> "b" [] ch = "U" -> "u" [] OTHER -> ch
LowerSeq(s) == [i \in DOMAIN s |-> LowerChar(s[i])]

Digit == <<"1", "2", "3", "4", "5", "6", "7", "8", "9">>

\* wb.create_sheet gives a title that is taken (whatever its case) the next free
\* number as a suffix
AvoidDuplicateName(names, value) ==
    LET counts == {k \in DOMAIN Digit :
                      \E n \in names : LowerSeq(n) = LowerSeq(value) \o <<Digit[k]>>}
        highest == IF counts = {} THEN 0 ELSE SetMax(counts)
    IN  IF \E n \in names : LowerSeq(n) = LowerSeq(value)
        THEN value \o <<Digit[highest + 1]>>
        ELSE value

\* the workbook after ensure_sheet, and the title of the sheet it returns
ensure_sheet(wb, title) ==
    LET safe == SafeTitle(title) IN
    IF safe \in DOMAIN wb
    THEN [wb |-> wb, name |-> safe]
    ELSE LET name == AvoidDuplicateName(DOMAIN wb, Truncate(safe, TitleLimit))
         IN  [wb |-> (name :> EmptySheet) @@ wb, name |-> name]

\* ---- the body of the owner loop of write_snapshot_to_excel
EnsureStageHeader(ws) ==
    IF MaxRowOf(ws) < 1 \/ TxtAt(ws, 1, 1) # "Stage" THEN SetTxt(ws, 1, 1, "Stage") ELSE ws

\* headers.index(week_label) + 1, or the column after the last one
WeekCol(ws, label) ==
    LET hit == {c \in 1..MaxColOf(ws) : TxtAt(ws, 1, c) = label}
    IN  IF hit # {} THEN SetMin(hit) ELSE MaxColOf(ws) + 1

EnsureWeekHeader(ws, label) ==
    IF \E c \in 1..MaxColOf(ws) : TxtAt(ws, 1, c) = label
    THEN ws
    ELSE SetTxt(ws, 1, WeekCol(ws, label), label)

\* existing_rows: stage label -> row; the last row holding a label wins
ExistingRows(ws) ==
    LET lbls == {TxtAt(ws, r, 1) : r \in 2..MaxRowOf(ws)} \ {NoVal}
    IN  [l \in lbls |-> SetMax({r \in 2..MaxRowOf(ws) : TxtAt(ws, r, 1) = l})]

\* a first free row that is the last used row itself
NextRowOnLast(ws) == MaxRowOf(ws)

\* next_row = ws.max_row + 1
NextRow(ws) == MaxRowOf(ws) + 1

RECURSIVE AddStages(_, _)
\* the loops of lines 230-240 over a list of stages; st = [ws, rows, next]
AddStages(st, stages) ==
    IF stages = <<>> THEN st
    ELSE LET stage == Head(stages) IN
         IF stage \in DOMAIN st.rows
         THEN AddStages(st, Tail(stages))
         ELSE AddStages([ws   |-> SetTxt(st.ws, st.next, 1, stage),
                         rows |-> (stage :> st.next) @@ st.rows,
                         next |-> st.next + 1],
                        Tail(stages))

RECURSIVE WriteSums(_, _, _, _)
\* for stage, amount_sum in stage_sums.items(): the cell of the week column
WriteSums(ws, rows, col, sums) ==
    IF sums = <<>> THEN ws
    ELSE WriteSums(SetNum(ws, rows[Head(sums)[1]], col, Head(sums)[2]),
                   rows, col, Tail(sums))

StageKeys(sums) == [i \in DOMAIN sums |-> sums[i][1]]

WriteOwnerSheet(ws0, label, sums, default_order) ==
    LET ws1 == EnsureStageHeader(ws0)
        col == WeekCol(ws1, label)
        ws2 == EnsureWeekHeader(ws1, label)
        st0 == [ws |-> ws2, rows |-> ExistingRows(ws2), next |-> NextRow(ws2)]
        st1 == AddStages(st0, default_order)
        st2 == AddStages(st1, StageKeys(sums))
    IN  WriteSums(st2.ws, st2.rows, col, sums)

\* ---- the run
InitOwner ==
    /\ odisk = [exists |-> FALSE, sheets |-> <<>>]
    /\ owb = <<>>
    /\ opc = "idle"
    /\ olabel = ""
    /\ odefault = <<>>
    /\ odone = {}
    /\ owritten = {}
    /\ osame = FALSE
    /\ oruns = 0
    \* the other parts are parked
    /\ pwb = <<>> /\ pbase = <<>> /\ pweek = "" /\ prows = <<>> /\ pstreak = 0 /\ pruns = 0
    /\ fwho = "parked" /\ fpages = 0 /\ fpc = "parked" /\ fafter = 0 /\ fattempt = 0 /\ facc = <<>> /\ fhist = <<>> /\ fsleeps = <<>> /\ fsent = 0 /\ fgot = 0 /\ fdecision = "none" /\ fslept = FALSE /\ ferr = 0 /\ fperm = FALSE
    /\ rlist = <<>> /\ rseen = {} /\ rout = <<>>
    /\ alist = <<>> /\ adata = <<>> /\ apc = "parked"
    /\ cresult = <<>> /\ clast = <<>> /\ cseen = 0
    /\ lwho = "parked" /\ lsize = 0 /\ lbatch = 0 /\ lidx = 0 /\ ldata = <<>> /\ llast_err = <<>> /\ lpc = "parked" /\ lreq = <<>> /\ lused = <<>> /\ lowners = {} /\ lerr = <<>>
    /\ dprog = "parked" /\ dfile = <<>> /\ dpc = "parked" /\ dweek = "" /\ dmem = {} /\ dbefore = <<>> /\ dwrites = 0 /\ druns = 0
    /\ nrec = <<>> /\ nname = <<>> /\ npc = "parked" /\ ntitle = <<>> /\ ncount = 0

\* lines 202-209: load the workbook, or start one without its default sheet
StartRun ==
    /\ opc \in {"idle", "failed"}
    /\ oruns < MaxORuns
    /\ owb' = IF odisk.exists THEN odisk.sheets ELSE <<>>
    /\ opc' = "writing"
    /\ \E label \in WeekLabels, default_order \in DefaultOrders :
        /\ osame' = (label = olabel)
        /\ olabel' = label
        /\ odefault' = default_order
    /\ odone' = {}
    /\ owritten' = {}
    /\ oruns' = oruns + 1
    /\ UNCHANGED odisk
    /\ UNCHANGED <<varsProduct, varsFetch, varsRows, varsAgg, varsAssoc, varsLookup, varsDisk, varsNames>>

\* lines 211-244: one item of data_by_owner
WriteOwner ==
    /\ opc = "writing"
    /\ \E owner_name \in OwnerNames \ odone, sums \in StageSums :
        LET e == ensure_sheet(owb, owner_name)
            ws == WriteOwnerSheet(e.wb[e.name], olabel, sums, odefault)
        IN  /\ owb' = [e.wb EXCEPT ![e.name] = ws]
            /\ owritten' =
                 {t \in owritten : ~(t[1] = e.name /\ t[2] \in Range(StageKeys(sums)))}
                 \cup {<<e.name, sums[i][1], sums[i][2]>> : i \in DOMAIN sums}
            /\ odone' = odone \cup {owner_name}
    /\ UNCHANGED <<odisk, opc, olabel, odefault, osame, oruns>>
    /\ UNCHANGED <<varsProduct, varsFetch, varsRows, varsAgg, varsAssoc, varsLookup, varsDisk, varsNames>>

\* line 246: wb.save; openpyxl refuses to save a workbook without a sheet
SaveOK ==
    /\ opc = "writing"
    /\ DOMAIN owb # {}
    /\ odisk' = [exists |-> TRUE, sheets |-> owb]
    /\ opc' = "idle"
    /\ UNCHANGED <<owb, olabel, odefault, odone, owritten, osame, oruns>>
    /\ UNCHANGED <<varsProduct, varsFetch, varsRows, varsAgg, varsAssoc, varsLookup, varsDisk, varsNames>>

SaveFails ==
    /\ opc = "writing"
    /\ DOMAIN owb = {}
    /\ opc' = "failed"
    /\ olabel' = ""
    /\ UNCHANGED <<odisk, owb, odefault, odone, owritten, osame, oruns>>
    /\ UNCHANGED <<varsProduct, varsFetch, varsRows, varsAgg, varsAssoc, varsLookup, varsDisk, varsNames>>

NextOwner ==
    \/ StartRun
    \/ WriteOwner
    \/ SaveOK
    \/ SaveFails

SpecOwner == InitOwner /\ [][NextOwner]_vars

\* the columns of a sheet headed by a label
ColsHeaded(ws, label) == {c \in 1..MaxColOf(ws) : TxtAt(ws, 1, c) = label}

\* C2: after a second run with the same week label every owner sheet the second
\* run wrote has exactly one column headed by the label, and each value in that
\* column is one the second run wrote: nothing of the first run survives in it.
C2_RerunColumnHoldsSecondRunOnly ==
    (opc = "idle" /\ osame) =>
        \A t \in {x[1] : x \in owritten} :
            LET ws == odisk.sheets[t] IN
            /\ Cardinality(ColsHeaded(ws, olabel)) = 1
            /\ \A k \in DOMAIN ws.num :
                 k[2] \in ColsHeaded(ws, olabel) =>
                     <<t, TxtAt(ws, k[1], 1), ws.num[k]>> \in owritten

\* what a run for `label` may change between the file before (a) and after (b)
SheetFrame(a, b, label) ==
    /\ \A k \in DOMAIN a.txt : k \in DOMAIN b.txt /\ b.txt[k] = a.txt[k]
    /\ \A k \in DOMAIN a.num :
         TxtAt(a, 1, k[2]) # label => k \in DOMAIN b.num /\ b.num[k] = a.num[k]
    /\ \A k \in DOMAIN b.num \ DOMAIN a.num : TxtAt(b, 1, k[2]) = label
    /\ \A k \in DOMAIN b.txt \ DOMAIN a.txt :
         \/ k[2] = 1 /\ k[1] > MaxRowOf(a)
         \/ k[1] = 1 /\ b.txt[k] \in {label, "Stage"}

\* C3: a run for week label W changes, on every sheet, only cells of the column
\* headed W, plus new stage rows below the old ones and W's header cell: the cells
\* of every other week's column, and every stage label with its row, stay.
C3_OtherWeeksUntouched ==
    [][(opc = "writing" /\ opc' = "idle" /\ odisk.exists) =>
        \A t \in DOMAIN odisk.sheets :
            /\ t \in DOMAIN odisk'.sheets
            /\ SheetFrame(odisk.sheets[t], odisk'.sheets[t], olabel)]_vars

\* a saved run for one week on a sheet that holds values of another week and
\* got a stage row more than the default ones
C3_Witness ==
    /\ opc = "idle"
    /\ oruns = 2
    /\ \E t \in DOMAIN odisk.sheets :
        LET ws == odisk.sheets[t] IN
        /\ \E k \in DOMAIN ws.num : TxtAt(ws, 1, k[2]) \notin {olabel, NoVal}
        /\ \E k \in DOMAIN ws.num : TxtAt(ws, 1, k[2]) = olabel
        /\ \E x \in owritten : x[1] = t /\ x[2] = "Lost"


(***************************************************************************)
(* PAGINATED FETCH WITH BACKOFF: fetch_deals, get_all_owners (owner/stage  *)
(* report), list_all_deals over hubspot_request (product report)           *)
(***************************************************************************)
MaxPages == 3
MaxFails == 6

Fetchers == {"fetch_deals", "get_all_owners", "list_all_deals"}

\* The statuses the transport answers with: success, a permanent client error,
\* throttling, a server error both programs retry, one only the owner/stage
\* program retries.
Statuses == {200, 404, 429, 500, 501}

\* No cursor (None); the cursor returned with page k is k.
NoCursor == 0

\* ---- the server: fpages pages of two records each
PageResults(k) == <<2 * k - 1, 2 * k>>
PageNext(k, n) == IF k < n THEN k ELSE NoCursor
PageOfCursor(c) == IF c = NoCursor THEN 1 ELSE c + 1

RECURSIVE PagesUpTo(_)
\* P1 ++ ... ++ Pk
PagesUpTo(k) == IF k = 0 THEN <<>> ELSE PagesUpTo(k - 1) \o PageResults(k)

\* ---- requests.Response.raise_for_status: an HTTPError for 4xx and 5xx
RaisesForStatus(s) == 400 <= s /\ s < 600


\* backoff_sleep(attempt): time.sleep(min(2 ** attempt, 32))
BackoffCap == 32
BackoffSleep(attempt) == IF 2 ^ attempt < BackoffCap THEN 2 ^ attempt ELSE BackoffCap

\* ---- product report, hubspot_request
\* a retry budget of two requests
RetriesTwo == 1 + 1

\* retries: int = 5
Retries == 5

\* a status test that takes every 5xx for transient
IsRetryStatusAny5xx(s) == s = 429 \/ (500 <= s /\ s < 600)

\* a status test that knows the usual server errors only
IsRetryStatusListed(s) == s \in {429, 500, 502, 503, 504}

\* ---- owner/stage report: resp.status_code == 429 or 500 <= resp.status_code < 600
IsRetryStatus(s) == s = 429 \/ (500 <= s /\ s < 600)

\* r.status_code in (429, 500, 502, 503, 504)
IsRetryStatusProduct(s) == s \in {429, 500, 502, 503, 504}

\* time.sleep(min(2 ** attempt, 20))
ProductCap == 20
ProductSleep(attempt) == IF 2 ^ attempt < ProductCap THEN 2 ^ attempt ELSE ProductCap

\* a request that always goes without the cursor
RequestCursorNone(after) == NoCursor

\* the cursor a request carries: body["after"] / params["after"]
RequestCursor(after) == after

\* `if not after: break` / `if next_after: ... else: break`
Truthy(c) == c # NoCursor

InitFetch ==
    /\ fwho \in Fetchers
    /\ fpages \in 1..MaxPages
    /\ fpc = "run"
    /\ fafter = NoCursor
    /\ fattempt = 0
    /\ facc = <<>>
    /\ fhist = <<>>
    /\ fsleeps = <<>>
    /\ fsent = NoCursor
    /\ fgot = 0
    /\ fdecision = "none"
    /\ fslept = FALSE
    /\ ferr = 0
    /\ fperm = FALSE
    \* the other parts are parked
    /\ pwb = <<>> /\ pbase = <<>> /\ pweek = "" /\ prows = <<>> /\ pstreak = 0 /\ pruns = 0
    /\ odisk = [exists |-> FALSE, sheets |-> <<>>] /\ owb = <<>> /\ opc = "parked" /\ olabel = "" /\ odefault = <<>> /\ odone = {} /\ owritten = {} /\ osame = FALSE /\ oruns = 0
    /\ rlist = <<>> /\ rseen = {} /\ rout = <<>>
    /\ alist = <<>> /\ adata = <<>> /\ apc = "parked"
    /\ cresult = <<>> /\ clast = <<>> /\ cseen = 0
    /\ lwho = "parked" /\ lsize = 0 /\ lbatch = 0 /\ lidx = 0 /\ ldata = <<>> /\ llast_err = <<>> /\ lpc = "parked" /\ lreq = <<>> /\ lused = <<>> /\ lowners = {} /\ lerr = <<>>
    /\ dprog = "parked" /\ dfile = <<>> /\ dpc = "parked" /\ dweek = "" /\ dmem = {} /\ dbefore = <<>> /\ dwrites = 0 /\ druns = 0
    /\ nrec = <<>> /\ nname = <<>> /\ npc = "parked" /\ ntitle = <<>> /\ ncount = 0

\* history of the request just answered with status s
Answered(s, sent) ==
    /\ fhist' = (IF fhist # <<>> /\ fhist[Len(fhist)] = 200 THEN <<>> ELSE fhist) \o <<s>>
    /\ fsent' = sent
    /\ fperm' = (fperm \/ ~(s = 200 \/ s = 429 \/ (500 <= s /\ s < 600)))

\* the sleeps of the request being retried, with one more of d seconds
Slept(d) ==
    /\ fsleeps' = (IF fhist # <<>> /\ fhist[Len(fhist)] = 200 THEN <<>> ELSE fsleeps) \o <<d>>
    /\ fslept' = TRUE

NotSlept ==
    /\ fsleeps' = (IF fhist # <<>> /\ fhist[Len(fhist)] = 200 THEN <<>> ELSE fsleeps)
    /\ fslept' = FALSE

\* the transport may fail a request MaxFails times in a row, not more
MayAnswer(s) ==
    s # 200 => Len(IF fhist # <<>> /\ fhist[Len(fhist)] = 200 THEN <<>> ELSE fhist) < MaxFails

\* a page received: results added, cursor taken, loop left on a missing cursor
PageReceived(sent) ==
    LET k == PageOfCursor(sent)
        next == PageNext(k, fpages)
    IN  /\ facc' = facc \o PageResults(k)
        /\ fafter' = next
        /\ fgot' = fgot + 1
        /\ fpc' = IF Truthy(next) THEN "run" ELSE "done"
        /\ fdecision' = "accept"
        /\ ferr' = 0

Failed(s) ==
    /\ fpc' = "error"
    /\ ferr' = s
    /\ fdecision' = "fail"
    /\ UNCHANGED <<facc, fafter, fgot>>

Retried ==
    /\ fdecision' = "retry"
    /\ UNCHANGED <<fpc, ferr, facc, fafter, fgot>>

\* one pass of the while loop of fetch_deals (lines 130-148)
FetchDealsStep ==
    /\ fwho = "fetch_deals" /\ fpc = "run"
    /\ \E s \in Statuses :
        LET sent == RequestCursor(fafter) IN
        /\ MayAnswer(s)
        /\ Answered(s, sent)
        /\ IF IsRetryStatus(s)
           THEN /\ fattempt' = fattempt + 1
                /\ Slept(BackoffSleep(fattempt + 1))
                /\ Retried
           ELSE IF RaisesForStatus(s)
           THEN /\ NotSlept /\ Failed(s) /\ UNCHANGED fattempt
           ELSE /\ fattempt' = 0
                /\ NotSlept
                /\ PageReceived(sent)
    /\ UNCHANGED <<fwho, fpages>>
    /\ UNCHANGED <<varsProduct, varsOwner, varsRows, varsAgg, varsAssoc, varsLookup, varsDisk, varsNames>>

\* one pass of the while loop of get_all_owners (lines 62-81)
GetAllOwnersStep ==
    /\ fwho = "get_all_owners" /\ fpc = "run"
    /\ \E s \in Statuses :
        LET sent == RequestCursor(fafter) IN
        /\ MayAnswer(s)
        /\ Answered(s, sent)
        /\ IF IsRetryStatus(s)
           THEN /\ fattempt' = fattempt + 1
                /\ Slept(BackoffSleep(fattempt + 1))
                /\ Retried
           ELSE IF RaisesForStatus(s)
           THEN /\ NotSlept /\ Failed(s) /\ UNCHANGED fattempt
           ELSE /\ NotSlept
                /\ PageReceived(sent)
                /\ UNCHANGED fattempt
    /\ UNCHANGED <<fwho, fpages>>
    /\ UNCHANGED <<varsProduct, varsOwner, varsRows, varsAgg, varsAssoc, varsLookup, varsDisk, varsNames>>

\* one request of hubspot_request (lines 64-80) for list_all_deals (lines 169-184);
\* fattempt is the index of the for loop over range(retries)
ListAllDealsStep ==
    /\ fwho = "list_all_deals" /\ fpc = "run"
    /\ \E s \in Statuses :
        LET sent == RequestCursor(fafter) IN
        /\ MayAnswer(s)
        /\ Answered(s, sent)
        /\ IF IsRetryStatusProduct(s)
           THEN /\ Slept(ProductSleep(fattempt))
                /\ fattempt' = fattempt + 1
                /\ IF fattempt + 1 < Retries
                   THEN Retried
                   ELSE Failed(s)
           ELSE IF RaisesForStatus(s)
           THEN /\ NotSlept /\ Failed(s) /\ UNCHANGED fattempt
           ELSE /\ fattempt' = 0
                /\ NotSlept
                /\ PageReceived(sent)
    /\ UNCHANGED <<fwho, fpages>>
    /\ UNCHANGED <<varsProduct, varsOwner, varsRows, varsAgg, varsAssoc, varsLookup, varsDisk, varsNames>>

NextFetch ==
    \/ FetchDealsStep
    \/ GetAllOwnersStep
    \/ ListAllDealsStep

SpecFetch == InitFetch /\ [][NextFetch]_vars

\* what the specification calls a transient error: HTTP 429 or 5xx
TransientStatus(s) == s = 429 \/ (500 <= s /\ s < 600)
\* the statuses hubspot_request takes for transient
ListedStatus(s) == s \in {429, 500, 502, 503, 504}

LastStatus == fhist[Len(fhist)]

C5_TwoThrottlesThenSuccess ==
    /\ fhist \in {<<429>>, <<429, 429>>} =>
          /\ fpc = "run"
          /\ fdecision = "retry"
          /\ Len(fsleeps) = Len(fhist)
    /\ fhist = <<429, 429, 200>> =>
          /\ Len(fsleeps) = 2
          /\ fpc # "error"
          /\ facc = PagesUpTo(fgot)
          /\ (fgot = fpages) => (fpc = "done" /\ facc = PagesUpTo(fpages))

\* list_all_deals got its last page, the second, at the third request
C5_Witness ==
    /\ fwho = "list_all_deals"
    /\ fhist = <<429, 429, 200>>
    /\ fgot = 2
    /\ fpc = "done"
    /\ fsleeps = <<1, 2>>

CursorBeforeLastRequest ==
    LET k == IF LastStatus = 200 THEN fgot - 1 ELSE fgot
    IN  IF k = 0 THEN NoCursor ELSE PageNext(k, fpages)

MaxDeals == 2

\* products_interest, a list of names that differ in more than case
products_interest == << <<"A">>, <<"B">>, <<"C">> >>

\* opt_map: option value -> label; here one option whose label has a blank around
OptValue == <<"o", "1">>
OptLabel == <<" ", "A">>
opt_map == (OptValue :> OptLabel)

\* the product field of a deal: None or a string of ";"-separated option values
RawValues ==
    { <<NoVal>>,
      <<>>,
      <<"A", ";", "B">>,
      <<"a", ";", " ", "B", " ">>,
      <<"A", ";", "A">>,
      <<"C", ";", "D">>,
      <<"o", "1", ";", "b">>,
      <<";", " ", ";">> }

IsNone(value) == value = <<NoVal>>

RECURSIVE SplitOn(_, _)
\* value.split(sep): the pieces between the separators, empty ones included
SplitOn(s, sep) ==
    IF \A i \in DOMAIN s : s[i] # sep THEN <<s>>
    ELSE LET i == SetMin({j \in DOMAIN s : s[j] = sep})
         IN  <<SubSeq(s, 1, i - 1)>> \o SplitOn(SubSeq(s, i + 1, Len(s)), sep)

\* [p.strip() for p in value.split(";") if p.strip()], [] for None and ""
split_multicheckbox(value) ==
    IF IsNone(value) \/ value = <<>> THEN <<>>
    ELSE LET parts == SplitOn(value, ";")
             stripped == [i \in DOMAIN parts |-> Strip(parts[i])]
         IN  SelectSeq(stripped, LAMBDA p : p # <<>>)

\* opt_map.get(v, v)
OptMapGet(v) == IF v \in DOMAIN opt_map THEN opt_map[v] ELSE v

\* want = {p.lower(): p for p in products_interest}: a later name replaces an
\* earlier one with the same lower-case form
WantHas(key) == \E i \in DOMAIN products_interest : LowerSeq(products_interest[i]) = key
WantGet(key) ==
    products_interest[SetMax({i \in DOMAIN products_interest :
                                 LowerSeq(products_interest[i]) = key})]

\* key = (pl or "").strip().lower()
ProductKey(pl) == LowerSeq(Strip(pl))

\* a test that never finds the pair
AlreadySeenNever(seen, pair) == FALSE

\* (sheet_product, deal_id) in seen
AlreadySeen(seen, pair) == pair \in seen

RECURSIVE EmitRows(_, _, _)
\* the loop over product_labels of one deal (lines 352-382); st = [seen, out]
EmitRows(st, deal_id, labels) ==
    IF labels = <<>> THEN st
    ELSE LET key == ProductKey(Head(labels)) IN
         IF ~WantHas(key) THEN EmitRows(st, deal_id, Tail(labels))
         ELSE LET sheet_product == WantGet(key) IN
              IF AlreadySeen(st.seen, <<sheet_product, deal_id>>)
              THEN EmitRows(st, deal_id, Tail(labels))
              ELSE EmitRows(
                     [seen |-> st.seen \cup {<<sheet_product, deal_id>>},
                      out  |-> [st.out EXCEPT ![sheet_product] =
                                   Append(@, <<sheet_product, deal_id>>)]],
                     deal_id, Tail(labels))

InitRows ==
    /\ rlist = <<>>
    /\ rseen = {}
    /\ rout = [p \in Range(products_interest) |-> <<>>]
    \* the other parts are parked
    /\ pwb = <<>> /\ pbase = <<>> /\ pweek = "" /\ prows = <<>> /\ pstreak = 0 /\ pruns = 0
    /\ odisk = [exists |-> FALSE, sheets |-> <<>>] /\ owb = <<>> /\ opc = "parked" /\ olabel = "" /\ odefault = <<>> /\ odone = {} /\ owritten = {} /\ osame = FALSE /\ oruns = 0
    /\ fwho = "parked" /\ fpages = 0 /\ fpc = "parked" /\ fafter = 0 /\ fattempt = 0 /\ facc = <<>> /\ fhist = <<>> /\ fsleeps = <<>> /\ fsent = 0 /\ fgot = 0 /\ fdecision = "none" /\ fslept = FALSE /\ ferr = 0 /\ fperm = FALSE
    /\ alist = <<>> /\ adata = <<>> /\ apc = "parked"
    /\ cresult = <<>> /\ clast = <<>> /\ cseen = 0
    /\ lwho = "parked" /\ lsize = 0 /\ lbatch = 0 /\ lidx = 0 /\ ldata = <<>> /\ llast_err = <<>> /\ lpc = "parked" /\ lreq = <<>> /\ lused = <<>> /\ lowners = {} /\ lerr = <<>>
    /\ dprog = "parked" /\ dfile = <<>> /\ dpc = "parked" /\ dweek = "" /\ dmem = {} /\ dbefore = <<>> /\ dwrites = 0 /\ druns = 0
    /\ nrec = <<>> /\ nname = <<>> /\ npc = "parked" /\ ntitle = <<>> /\ ncount = 0

\* one pass of the loop over deals (lines 326-382)
BuildRowsDeal ==
    /\ Len(rlist) < MaxDeals
    /\ \E id \in DealIds, raw \in RawValues :
        LET product_values == split_multicheckbox(raw)
            product_labels == [i \in DOMAIN product_values |-> OptMapGet(product_values[i])]
            st == EmitRows([seen |-> rseen, out |-> rout], id, product_labels)
        IN  /\ rseen' = st.seen
            /\ rout' = st.out
            /\ rlist' = Append(rlist, [id |-> id, raw |-> raw])
    /\ UNCHANGED <<varsProduct, varsOwner, varsFetch, varsAgg, varsAssoc, varsLookup, varsDisk, varsNames>>

NextRows == BuildRowsDeal

SpecRows == InitRows /\ [][NextRows]_vars

\* the option values of a product field, read off the string: the stripped,
\* non-empty stretches between separators
ValuesOf(raw) ==
    IF IsNone(raw) THEN {}
    ELSE {Strip(SubSeq(raw, i, j)) :
            <<i, j>> \in {x \in (1..(Len(raw) + 1)) \X (0..Len(raw)) :
                /\ x[1] <= x[2] + 1
                /\ (x[1] = 1 \/ raw[x[1] - 1] = ";")
                /\ (x[2] = Len(raw) \/ raw[x[2] + 1] = ";")
                /\ \A k \in x[1]..x[2] : raw[k] # ";"}} \ {<<>>}

\* some value of the field, after option-label mapping, is product p but for case
\* and surrounding blanks
NamesProduct(raw, p) ==
    \E v \in ValuesOf(raw) : LowerSeq(Strip(OptMapGet(v))) = LowerSeq(p)

CountIn(s, x) == Cardinality({i \in DOMAIN s : s[i] = x})

\* C8: for every deal id and every product of interest P there is exactly one row
\* on P's list if a deal with that id names P (ignoring case and blanks, after
\* option-label mapping) and none otherwise, so no (product, deal id) key is
\* emitted twice, also when an id or a product comes twice.
C8_OneRowPerProductAndDeal ==
    \A p \in Range(products_interest), d \in DealIds :
        /\ CountIn(rout[p], <<p, d>>) =
              IF \E i \in DOMAIN rlist : rlist[i].id = d /\ NamesProduct(rlist[i].raw, p)
              THEN 1 ELSE 0
        /\ \A i \in DOMAIN rout[p] : rout[p][i][1] = p

\* the deal "A;B" alone gives the two rows (A, d1) and (B, d1); and a list with
\* the same id twice, naming A both times, has been built
C8_Witness ==
    \/ /\ rlist = <<[id |-> "d1", raw |-> <<"A", ";", "B">>]>>
       /\ rout[<<"A">>] = <<<<<<"A">>, "d1">>>>
       /\ rout[<<"B">>] = <<<<<<"B">>, "d1">>>>
       /\ rout[<<"C">>] = <<>>
    \/ /\ Len(rlist) = 2
       /\ rlist[1].id = rlist[2].id
       /\ rlist[1].raw = <<"A", ";", "A">>
       /\ rlist[2].raw = <<"o", "1", ";", "b">>


(***************************************************************************)
(* OWNER/STAGE REPORT: aggregate_amounts_by_owner_and_stage                *)
(***************************************************************************)
MaxAggDeals == 2

\* The values the JSON of a deal may give for "amount": null, "", a numeric
\* string, a string that is no number, a number, an array.
AmountValues ==
    { [k |-> "null", v |-> 0],
      [k |-> "empty", v |-> 0],
      [k |-> "numstr", v |-> 3],
      [k |-> "text", v |-> 0],
      [k |-> "number", v |-> 2],
      [k |-> "array", v |-> 0] }

\* float(x): the value, or the exception raised
PyFloat(a) ==
    CASE a.k \in {"numstr", "number"} -> [exc |-> "none", v |-> a.v]
      [] a.k \in {"text", "empty"}     -> [exc |-> "ValueError", v |-> 0]
      [] OTHER                          -> [exc |-> "TypeError", v |-> 0]

\* lines 164-167: float(amount) if amount not in (None, "") else 0.0, with
\* ValueError caught
AmountValue(a) ==
    IF a.k \in {"null", "empty"} THEN [exc |-> "none", v |-> 0]
    ELSE LET f == PyFloat(a) IN
         IF f.exc = "ValueError" THEN [exc |-> "none", v |-> 0] ELSE f

owners_map == ("o1" :> "Al")
stage_label_map == ("s1" :> "Lead")
OwnerIds == {"o1", "None"}
StageIds == {"s1", "s9"}

\* owners_map.get(str(owner_id), "Unassigned")
OwnerNameOf(id) == IF id \in DOMAIN owners_map THEN owners_map[id] ELSE "Unassigned"
\* stage_label_map.get(stage_id, "Unknown stage")
StageLabelOf(id) == IF id \in DOMAIN stage_label_map THEN stage_label_map[id] ELSE "Unknown stage"

InitAgg ==
    /\ alist = <<>>
    /\ adata = <<>>
    /\ apc = "run"
    \* the other parts are parked
    /\ pwb = <<>> /\ pbase = <<>> /\ pweek = "" /\ prows = <<>> /\ pstreak = 0 /\ pruns = 0
    /\ odisk = [exists |-> FALSE, sheets |-> <<>>] /\ owb = <<>> /\ opc = "parked" /\ olabel = "" /\ odefault = <<>> /\ odone = {} /\ owritten = {} /\ osame = FALSE /\ oruns = 0
    /\ fwho = "parked" /\ fpages = 0 /\ fpc = "parked" /\ fafter = 0 /\ fattempt = 0 /\ facc = <<>> /\ fhist = <<>> /\ fsleeps = <<>> /\ fsent = 0 /\ fgot = 0 /\ fdecision = "none" /\ fslept = FALSE /\ ferr = 0 /\ fperm = FALSE
    /\ rlist = <<>> /\ rseen = {} /\ rout = <<>>
    /\ cresult = <<>> /\ clast = <<>> /\ cseen = 0
    /\ lwho = "parked" /\ lsize = 0 /\ lbatch = 0 /\ lidx = 0 /\ ldata = <<>> /\ llast_err = <<>> /\ lpc = "parked" /\ lreq = <<>> /\ lused = <<>> /\ lowners = {} /\ lerr = <<>>
    /\ dprog = "parked" /\ dfile = <<>> /\ dpc = "parked" /\ dweek = "" /\ dmem = {} /\ dbefore = <<>> /\ dwrites = 0 /\ druns = 0
    /\ nrec = <<>> /\ nname = <<>> /\ npc = "parked" /\ ntitle = <<>> /\ ncount = 0

\* one pass of the loop over deals (lines 159-171)
AggregateDeal ==
    /\ apc = "run"
    /\ Len(alist) < MaxAggDeals
    /\ \E a \in AmountValues, o \in OwnerIds, s \in StageIds :
        LET val == AmountValue(a)
            key == <<OwnerNameOf(o), StageLabelOf(s)>>
            old == IF key \in DOMAIN adata THEN adata[key] ELSE 0
        IN  /\ alist' = Append(alist, [amount |-> a, owner |-> o, stage |-> s])
            /\ IF val.exc = "none"
               THEN /\ adata' = (key :> (old + val.v)) @@ adata
                    /\ apc' = "run"
               ELSE /\ apc' = val.exc
                    /\ UNCHANGED adata
    /\ UNCHANGED <<varsProduct, varsOwner, varsFetch, varsRows, varsAssoc, varsLookup, varsDisk, varsNames>>

NextAgg == AggregateDeal

SpecAgg == InitAgg /\ [][NextAgg]_vars

\* the number an amount stands for: its value if it parses, else nothing
IsNumeric(a) == a.k \in {"numstr", "number"}

RECURSIVE NumericSum(_, _)
\* the sum of the numeric amounts of the deals of list l in bucket key
NumericSum(l, key) ==
    IF l = <<>> THEN 0
    ELSE NumericSum(Tail(l), key) +
         (IF <<OwnerNameOf(Head(l).owner), StageLabelOf(Head(l).stage)>> = key
             /\ IsNumeric(Head(l).amount)
          THEN Head(l).amount.v ELSE 0)

\* C9: a deal whose amount is empty, null or not a number, whatever its type,
\* does not make the aggregation fail and counts 0.0: every owner/stage sum is
\* the sum of the numeric amounts of the bucket.
C9_NonNumericAmountIsZero ==
    /\ apc = "run"
    /\ \A key \in DOMAIN adata : adata[key] = NumericSum(alist, key)
    /\ \A i \in DOMAIN alist :
         <<OwnerNameOf(alist[i].owner), StageLabelOf(alist[i].stage)>> \in DOMAIN adata

\* the same for the amounts that are null or strings
C9_StringsAndNull ==
    (\A i \in DOMAIN alist : alist[i].amount.k # "array") =>
        /\ apc = "run"
        /\ \A key \in DOMAIN adata : adata[key] = NumericSum(alist, key)


(***************************************************************************)
(* PRODUCT REPORT: batch_read_deal_company_primary, the result records     *)
(***************************************************************************)
MaxRecs == 2
MaxTos == 2

CompanyIds == {"c1", "c2"}

\* the "label" of an association type: None or a string
AssocLabels == {NoVal, "Primary", "PRIMARY", "Partner"}

\* (a.get("label") or "").lower()
LabelLower(l) ==
    CASE l = NoVal -> ""
      [] l \in {"Primary", "PRIMARY"} -> "primary"
      [] l = "Partner" -> "partner"
      [] OTHER -> l

\* the associationTypes lists of one associated company
AssocTypeLists == {<<>>, <<"Primary">>, <<NoVal, "PRIMARY">>, <<"Partner">>}

\* one entry of rec["to"]
ToEntries == [cid : CompanyIds, types : AssocTypeLists]

\* any(... == "primary" for a in assoc_types)
HasPrimary(t) == \E i \in DOMAIN t.types : LabelLower(t.types[i]) = "primary"

\* a fallback that follows the last company seen
KeepFallbackLast(fallback, cid) == cid

\* if not fallback_first: fallback_first = cid
KeepFallback(fallback, cid) == IF fallback = NoVal THEN cid ELSE fallback

RECURSIVE ScanTos(_, _)
\* the loop over tos (lines 268-276); st = [primary, fallback]
ScanTos(st, tos) ==
    IF tos = <<>> THEN st
    ELSE LET t == Head(tos)
             fb == KeepFallback(st.fallback, t.cid)
         IN  IF HasPrimary(t)
             THEN [primary |-> t.cid, fallback |-> fb]
             ELSE ScanTos([primary |-> st.primary, fallback |-> fb], Tail(tos))

\* result[deal_id] = primary_company_id or fallback_first or ""
ResolveCompany(tos) ==
    LET st == ScanTos([primary |-> NoVal, fallback |-> NoVal], tos)
    IN  IF st.primary # NoVal THEN st.primary
        ELSE IF st.fallback # NoVal THEN st.fallback
        ELSE ""

InitAssoc ==
    /\ cresult = <<>>
    /\ clast = [from |-> "", tos |-> <<>>]
    /\ cseen = 0
    \* the other parts are parked
    /\ pwb = <<>> /\ pbase = <<>> /\ pweek = "" /\ prows = <<>> /\ pstreak = 0 /\ pruns = 0
    /\ odisk = [exists |-> FALSE, sheets |-> <<>>] /\ owb = <<>> /\ opc = "parked" /\ olabel = "" /\ odefault = <<>> /\ odone = {} /\ owritten = {} /\ osame = FALSE /\ oruns = 0
    /\ fwho = "parked" /\ fpages = 0 /\ fpc = "parked" /\ fafter = 0 /\ fattempt = 0 /\ facc = <<>> /\ fhist = <<>> /\ fsleeps = <<>> /\ fsent = 0 /\ fgot = 0 /\ fdecision = "none" /\ fslept = FALSE /\ ferr = 0 /\ fperm = FALSE
    /\ rlist = <<>> /\ rseen = {} /\ rout = <<>>
    /\ alist = <<>> /\ adata = <<>> /\ apc = "parked"
    /\ lwho = "parked" /\ lsize = 0 /\ lbatch = 0 /\ lidx = 0 /\ ldata = <<>> /\ llast_err = <<>> /\ lpc = "parked" /\ lreq = <<>> /\ lused = <<>> /\ lowners = {} /\ lerr = <<>>
    /\ dprog = "parked" /\ dfile = <<>> /\ dpc = "parked" /\ dweek = "" /\ dmem = {} /\ dbefore = <<>> /\ dwrites = 0 /\ druns = 0
    /\ nrec = <<>> /\ nname = <<>> /\ npc = "parked" /\ ntitle = <<>> /\ ncount = 0

\* one pass of the loop over data["results"] (lines 261-278)
ReadAssocRecord ==
    /\ cseen < MaxRecs
    /\ \E d \in DealIds, tos \in SeqsUpTo(ToEntries, MaxTos) :
        /\ cresult' = (d :> ResolveCompany(tos)) @@ cresult
        /\ clast' = [from |-> d, tos |-> tos]
    /\ cseen' = cseen + 1
    /\ UNCHANGED <<varsProduct, varsOwner, varsFetch, varsRows, varsAgg, varsLookup, varsDisk, varsNames>>

NextAssoc == ReadAssocRecord

SpecAssoc == InitAssoc /\ [][NextAssoc]_vars

\* C10: the record of a deal maps the deal to the first associated company that
\* carries a "primary" label (whatever its case), else to the first associated
\* company, and to "" only when it has no associated company.
C10_PrimaryElseFirst ==
    cseen > 0 =>
        LET tos == clast.tos
            prim == {i \in DOMAIN tos : HasPrimary(tos[i])}
        IN  /\ clast.from \in DOMAIN cresult
            /\ cresult[clast.from] =
                 IF prim # {} THEN tos[SetMin(prim)].cid
                 ELSE IF tos # <<>> THEN tos[1].cid
                 ELSE ""

\* a record whose second company, not its first, is the primary one, read after
\* the record of another deal that has a company
C10_Witness ==
    /\ cseen = 2
    /\ Len(clast.tos) = 2
    /\ ~HasPrimary(clast.tos[1])
    /\ HasPrimary(clast.tos[2])
    /\ clast.tos[1].cid # clast.tos[2].cid
    /\ cresult[clast.from] = clast.tos[2].cid
    /\ \E d \in DOMAIN cresult : d # clast.from /\ cresult[d] # ""

(***************************************************************************)
(* Product report: lookups that try alternate endpoint paths               *)
(*   get_owners_map (lines 195-227)                                        *)
(*   batch_read_deal_company_primary (lines 230-280)                       *)
(***************************************************************************)
\* the pages of the owner table the server holds, or the batches of deal ids
MaxLookup == 2

Lookups == {"get_owners_map", "batch_read_deal_company_primary"}

\* candidate_paths of the two lookups
OwnerPaths == <<"/crm/v3/owners", "/owners/v2/owners">>
AssocPaths == <<"/crm/v4/associations/deals/companies/batch/read",
                "/crm/v4/associations/deal/companies/batch/read",
                "/crm/v4/associations/deals/company/batch/read">>
candidate_paths(who) == IF who = "get_owners_map" THEN OwnerPaths ELSE AssocPaths

\* the status that ends one call of hubspot_request: 200 returns the body, any
\* other one is raised as an HTTP error (429 and 500 after the retries)
LookupStatuses == {200, 404, 429, 500}

\* the ids of the owners on page k of the owner table, and of all n pages
OwnerPageIds(k) == {2 * k - 1, 2 * k}
AllOwnerIds(n) == UNION {OwnerPageIds(k) : k \in 1..n}

\* `data = None`
NoData == [none |-> TRUE, path |-> "", results |-> {}, next |-> NoCursor]
\* `last_err = None`
NoErr == <<>>

\* the body served at a path: /crm/v3/owners serves the first page of the table
\* with the cursor of the next one, the legacy path serves the whole list, the
\* association paths serve the records of the batch
ServedData(who, path, size, batch) ==
    IF who = "get_owners_map"
    THEN IF path = OwnerPaths[1]
         THEN [none |-> FALSE, path |-> path, results |-> OwnerPageIds(1),
               next |-> PageNext(1, size)]
         ELSE [none |-> FALSE, path |-> path, results |-> AllOwnerIds(size),
               next |-> NoCursor]
    ELSE [none |-> FALSE, path |-> path, results |-> {batch}, next |-> NoCursor]

\* a handler that keeps the first error it saw
KeepFirstErr(old, e) == IF old = NoErr THEN e ELSE old

\* `except Exception as e: last_err = e`
KeepLastErr(old, e) == e

\* owners[oid] = {...} for o in results: the ids of the map built from the data
OwnersOf(data) == data.results

InitLookup ==
    /\ lwho \in Lookups
    /\ lsize \in 1..MaxLookup
    /\ lbatch = 1
    /\ lidx = 1
    /\ ldata = NoData
    /\ llast_err = NoErr
    /\ lpc = "run"
    /\ lreq = <<>>
    /\ lused = <<>>
    /\ lowners = {}
    /\ lerr = NoErr
    \* the other parts are parked
    /\ pwb = <<>> /\ pbase = <<>> /\ pweek = "" /\ prows = <<>> /\ pstreak = 0 /\ pruns = 0
    /\ odisk = [exists |-> FALSE, sheets |-> <<>>] /\ owb = <<>> /\ opc = "parked" /\ olabel = "" /\ odefault = <<>> /\ odone = {} /\ owritten = {} /\ osame = FALSE /\ oruns = 0
    /\ fwho = "parked" /\ fpages = 0 /\ fpc = "parked" /\ fafter = 0 /\ fattempt = 0 /\ facc = <<>> /\ fhist = <<>> /\ fsleeps = <<>> /\ fsent = 0 /\ fgot = 0 /\ fdecision = "none" /\ fslept = FALSE /\ ferr = 0 /\ fperm = FALSE
    /\ rlist = <<>> /\ rseen = {} /\ rout = <<>>
    /\ alist = <<>> /\ adata = <<>> /\ apc = "parked"
    /\ cresult = <<>> /\ clast = <<>> /\ cseen = 0
    /\ dprog = "parked" /\ dfile = <<>> /\ dpc = "parked" /\ dweek = "" /\ dmem = {} /\ dbefore = <<>> /\ dwrites = 0 /\ druns = 0
    /\ nrec = <<>> /\ nname = <<>> /\ npc = "parked" /\ ntitle = <<>> /\ ncount = 0

\* the request of the candidate at lidx succeeds: break, the data is used, and
\* the lookup returns or goes on to the next batch
CandidateSucceeds ==
    /\ lpc = "run"
    /\ lidx <= Len(candidate_paths(lwho))
    /\ LET path == candidate_paths(lwho)[lidx]
           data == ServedData(lwho, path, lsize, lbatch)
           last == (lwho = "get_owners_map" \/ lbatch = lsize)
       IN  /\ lreq' = Append(lreq, <<lbatch, path, 200>>)
           /\ lused' = Append(lused, data)
           /\ lowners' = IF lwho = "get_owners_map" THEN OwnersOf(data) ELSE lowners
           /\ ldata' = IF last THEN data ELSE NoData
           /\ lpc' = IF last THEN "done" ELSE "run"
           /\ lbatch' = IF last THEN lbatch ELSE lbatch + 1
           /\ lidx' = IF last THEN lidx ELSE 1
           /\ llast_err' = IF last THEN llast_err ELSE NoErr
    /\ UNCHANGED <<lwho, lsize, lerr>>
    /\ UNCHANGED <<varsProduct, varsOwner, varsFetch, varsRows, varsAgg, varsAssoc, varsDisk, varsNames>>

\* the request of the candidate at lidx raises: the error is kept and the next
\* candidate is tried; after the last candidate RuntimeError is raised
CandidateFails ==
    /\ lpc = "run"
    /\ lidx <= Len(candidate_paths(lwho))
    /\ \E s \in LookupStatuses \ {200} :
        LET path == candidate_paths(lwho)[lidx]
            e == KeepLastErr(llast_err, <<path, s>>)
        IN  /\ lreq' = Append(lreq, <<lbatch, path, s>>)
            /\ llast_err' = e
            /\ ldata' = NoData
            /\ lidx' = lidx + 1
            /\ IF lidx = Len(candidate_paths(lwho))
               THEN lpc' = "error" /\ lerr' = e
               ELSE UNCHANGED <<lpc, lerr>>
    /\ UNCHANGED <<lwho, lsize, lbatch, lused, lowners>>
    /\ UNCHANGED <<varsProduct, varsOwner, varsFetch, varsRows, varsAgg, varsAssoc, varsDisk, varsNames>>

NextLookup ==
    \/ CandidateSucceeds
    \/ CandidateFails

SpecLookup == InitLookup /\ [][NextLookup]_vars

\* the requests made for batch b, in the order they were made
RequestsOf(b) == SelectSeq(lreq, LAMBDA r : r[1] = b)

\* C11: the candidates of a lookup (of each batch) are requested in list order,
\* nothing is requested after the first success, the data used is the data of
\* that success, and the lookup fails exactly when every candidate failed, with
\* an error that names the failure of the last candidate.
C11_CandidatesInOrder ==
    /\ \A b \in 1..lsize :
        LET rs == RequestsOf(b)
            paths == candidate_paths(lwho)
        IN  /\ Len(rs) <= Len(paths)
            /\ \A i \in 1..Len(rs) :
                /\ rs[i][2] = paths[i]
                /\ rs[i][3] = 200 => i = Len(rs)
            /\ (rs # <<>> /\ rs[Len(rs)][3] = 200) =>
                 /\ Len(lused) >= b
                 /\ lused[b] = ServedData(lwho, rs[Len(rs)][2], lsize, b)
            /\ (rs = <<>> \/ rs[Len(rs)][3] # 200) => Len(lused) < b
    /\ lpc = "error" <=>
         LET rs == RequestsOf(lbatch) IN
         /\ Len(rs) = Len(candidate_paths(lwho))
         /\ \A i \in 1..Len(rs) : rs[i][3] # 200
    /\ lpc = "error" =>
         LET rs == RequestsOf(lbatch) IN lerr = <<rs[Len(rs)][2], rs[Len(rs)][3]>>
    /\ lpc # "error" => lerr = NoErr

\* the associations of the first batch came from the second path after one
\* failure, and the second batch failed on all three paths, the last with 500
C11_Witness ==
    /\ lwho = "batch_read_deal_company_primary"
    /\ lpc = "error"
    /\ lbatch = 2
    /\ Len(lused) = 1
    /\ lused[1].path = AssocPaths[2]
    /\ lerr = <<AssocPaths[3], 500>>
    /\ RequestsOf(2)[1][3] = 404

\* C13: the owner loader of the product report returns an entry for every owner
\* on every page the API serves.
C13_OwnerMapHasEveryOwner ==
    (lwho = "get_owners_map" /\ lpc = "done") => lowners = AllOwnerIds(lsize)

\* the part of C13 the code keeps: the legacy path, which serves the whole list,
\* and a table of one page give the whole table
C13_WholeTableWhenUnpaged ==
    (lwho = "get_owners_map" /\ lpc = "done"
        /\ (lsize = 1 \/ ldata.path = OwnerPaths[2])) => lowners = AllOwnerIds(lsize)

\* the owner loader of the owner/stage report, get_all_owners, follows the cursor:
\* when it returns it has taken the results of every page
C13_GetAllOwnersEveryPage ==
    (fwho = "get_all_owners" /\ fpc = "done") => facc = PagesUpTo(fpages)

(***************************************************************************)
(* The workbook file during the runs of main                               *)
(*   owner/stage report: main (250-270), write_snapshot_to_excel (196-246) *)
(*   product report: main (570-646), create_new_workbook (111-126)         *)
(* The content of a workbook is the set of weeks it holds a snapshot of;   *)
(* the workbook create_new_workbook saves holds the headers and no week.   *)
(***************************************************************************)
MaxDRuns == 2

Programs == {"owner_stage", "product"}

\* the file does not exist
NoFile == [exists |-> FALSE, weeks |-> {}]
\* wb.save(path): the file holds the workbook
FileOf(wb) == [exists |-> TRUE, weeks |-> wb]

\* openpyxl.Workbook() / Workbook(): a workbook without a snapshot
NewWorkbook == {}

\* create_new_workbook ends with wb.save(path)
CreateSaves(file, wb) == FileOf(wb)

InitDisk ==
    /\ dprog \in Programs
    /\ dfile \in {NoFile, FileOf({"2026-W01"})}
    /\ dpc = "idle"
    /\ dweek = ""
    /\ dmem = {}
    /\ dbefore = NoFile
    /\ dwrites = 0
    /\ druns = 0
    \* the other parts are parked
    /\ pwb = <<>> /\ pbase = <<>> /\ pweek = "" /\ prows = <<>> /\ pstreak = 0 /\ pruns = 0
    /\ odisk = [exists |-> FALSE, sheets |-> <<>>] /\ owb = <<>> /\ opc = "parked" /\ olabel = "" /\ odefault = <<>> /\ odone = {} /\ owritten = {} /\ osame = FALSE /\ oruns = 0
    /\ fwho = "parked" /\ fpages = 0 /\ fpc = "parked" /\ fafter = 0 /\ fattempt = 0 /\ facc = <<>> /\ fhist = <<>> /\ fsleeps = <<>> /\ fsent = 0 /\ fgot = 0 /\ fdecision = "none" /\ fslept = FALSE /\ ferr = 0 /\ fperm = FALSE
    /\ rlist = <<>> /\ rseen = {} /\ rout = <<>>
    /\ alist = <<>> /\ adata = <<>> /\ apc = "parked"
    /\ cresult = <<>> /\ clast = <<>> /\ cseen = 0
    /\ lwho = "parked" /\ lsize = 0 /\ lbatch = 0 /\ lidx = 0 /\ ldata = <<>> /\ llast_err = <<>> /\ lpc = "parked" /\ lreq = <<>> /\ lused = <<>> /\ lowners = {} /\ lerr = <<>>
    /\ nrec = <<>> /\ nname = <<>> /\ npc = "parked" /\ ntitle = <<>> /\ ncount = 0

\* main starts: the week of the snapshot is fixed and the fetches begin
StartMain ==
    /\ dpc \in {"idle", "failed"}
    /\ druns < MaxDRuns
    /\ druns' = druns + 1
    /\ \E w \in WeekLabels : dweek' = w
    /\ dpc' = "fetching"
    /\ dbefore' = dfile
    /\ dwrites' = 0
    /\ dmem' = {}
    /\ UNCHANGED <<dprog, dfile>>
    /\ UNCHANGED <<varsProduct, varsOwner, varsFetch, varsRows, varsAgg, varsAssoc, varsLookup, varsNames>>

\* the fetches and the aggregation (build_rows) return
FetchesReturn ==
    /\ dpc = "fetching"
    /\ dpc' = "fetched"
    /\ UNCHANGED <<dprog, dfile, dweek, dmem, dbefore, dwrites, druns>>
    /\ UNCHANGED <<varsProduct, varsOwner, varsFetch, varsRows, varsAgg, varsAssoc, varsLookup, varsNames>>

\* the workbook is loaded from the file, or made anew when there is no file:
\* the owner/stage report keeps the new workbook in memory, the product report
\* saves it in create_new_workbook
OpenWorkbook ==
    /\ dpc = "fetched"
    /\ dpc' = "opened"
    /\ IF dfile.exists
       THEN /\ dmem' = dfile.weeks
            /\ UNCHANGED <<dfile, dwrites>>
       ELSE /\ dmem' = NewWorkbook
            /\ IF dprog = "product"
               THEN /\ dfile' = CreateSaves(dfile, NewWorkbook)
                    /\ dwrites' = dwrites + 1
               ELSE UNCHANGED <<dfile, dwrites>>
    /\ UNCHANGED <<dprog, dweek, dbefore, druns>>
    /\ UNCHANGED <<varsProduct, varsOwner, varsFetch, varsRows, varsAgg, varsAssoc, varsLookup, varsNames>>

\* the sheets are changed in memory: the snapshot of the week is written
MutateSheets ==
    /\ dpc = "opened"
    /\ dpc' = "mutated"
    /\ dmem' = dmem \cup {dweek}
    /\ UNCHANGED <<dprog, dfile, dweek, dbefore, dwrites, druns>>
    /\ UNCHANGED <<varsProduct, varsOwner, varsFetch, varsRows, varsAgg, varsAssoc, varsLookup, varsNames>>

\* the final wb.save
FinalSave ==
    /\ dpc = "mutated"
    /\ dpc' = "idle"
    /\ dfile' = FileOf(dmem)
    /\ dwrites' = dwrites + 1
    /\ UNCHANGED <<dprog, dweek, dmem, dbefore, druns>>
    /\ UNCHANGED <<varsProduct, varsOwner, varsFetch, varsRows, varsAgg, varsAssoc, varsLookup, varsNames>>

\* the run fails (an exception, or the process is stopped) before the final save
RunFails ==
    /\ dpc \in {"fetching", "fetched", "opened", "mutated"}
    /\ dpc' = "failed"
    /\ UNCHANGED <<dprog, dfile, dweek, dmem, dbefore, dwrites, druns>>
    /\ UNCHANGED <<varsProduct, varsOwner, varsFetch, varsRows, varsAgg, varsAssoc, varsLookup, varsNames>>

NextDisk ==
    \/ StartMain
    \/ FetchesReturn
    \/ OpenWorkbook
    \/ MutateSheets
    \/ FinalSave
    \/ RunFails

SpecDisk == InitDisk /\ [][NextDisk]_vars

\* C12: in each program a run writes the workbook file at most once, with the
\* final save, and a run that failed before that save left the file as it was
\* before the run, whether it existed or not.
C12_WrittenOnceAtTheEnd ==
    /\ dwrites <= 1
    /\ dpc \in {"fetching", "fetched", "opened", "mutated", "failed"} => dfile = dbefore

\* the part of C12 the code keeps: the owner/stage report, and the product
\* report when the output file exists before the run
C12_WrittenOnceWhenNotCreating ==
    (dprog = "owner_stage" \/ dbefore.exists) =>
        /\ dwrites <= 1
        /\ dpc \in {"fetching", "fetched", "opened", "mutated", "failed"} =>
             dfile = dbefore

(***************************************************************************)
(* Owner/stage report: the display name of an owner                       *)
(*   get_all_owners (lines 69-76), the name as key of the aggregation     *)
(*   (lines 168-171) and as sheet title in ensure_sheet (lines 184-193)    *)
(***************************************************************************)
\* a field of an owner record: the key is missing, its value is null, or it is
\* a string
FieldMissing == [k |-> "missing", v |-> <<>>]
FieldNull == [k |-> "null", v |-> <<>>]
FieldStr(s) == [k |-> "str", v |-> s]

FirstNames == {FieldMissing, FieldNull, FieldStr(<<>>), FieldStr(<<" ">>), FieldStr(<<"A", "l">>)}
LastNames == {FieldMissing, FieldNull, FieldStr(<<>>), FieldStr(<<" ">>), FieldStr(<<"B">>)}
Emails == {FieldMissing, FieldNull, FieldStr(<<>>), FieldStr(<<" ">>), FieldStr(<<"a", "@", "x">>)}
OwnerRecIds == {<<"7">>, <<"8">>}
\* the owner records read
MaxOwnerRecs == 2

\* a Python value that is None or a string
PyNone == [none |-> TRUE, s |-> <<>>]
PyString(s) == [none |-> FALSE, s |-> s]

\* o.get(key, default)
DictGet(f, default) ==
    CASE f.k = "missing" -> default
      [] f.k = "null" -> PyNone
      [] OTHER -> PyString(f.v)

\* a value inside an f-string: None is written "None"
Format(x) == IF x.none THEN <<"N", "o", "n", "e">> ELSE x.s

\* f"Owner {owner_id}"
OwnerPlaceholder(id) == <<"O", "w", "n", "e", "r", " ">> \o id

\* x or y
PyOr(x, y) == IF ~x.none /\ x.s # <<>> THEN x ELSE y

\* name = f"{o.get('firstName', '')} {o.get('lastName', '')}".strip()
\*        or o.get("email", f"Owner {owner_id}")
DisplayName(o) ==
    PyOr(PyString(Strip(Format(DictGet(o.firstName, PyString(<<>>))) \o <<" ">>
                         \o Format(DictGet(o.lastName, PyString(<<>>))))),
         DictGet(o.email, PyString(OwnerPlaceholder(o.id))))

InitNames ==
    /\ nrec = [id |-> <<>>, firstName |-> FieldMissing, lastName |-> FieldMissing,
               email |-> FieldMissing]
    /\ nname = PyNone
    /\ npc = "idle"
    /\ ntitle = <<>>
    /\ ncount = 0
    \* the other parts are parked
    /\ pwb = <<>> /\ pbase = <<>> /\ pweek = "" /\ prows = <<>> /\ pstreak = 0 /\ pruns = 0
    /\ odisk = [exists |-> FALSE, sheets |-> <<>>] /\ owb = <<>> /\ opc = "parked" /\ olabel = "" /\ odefault = <<>> /\ odone = {} /\ owritten = {} /\ osame = FALSE /\ oruns = 0
    /\ fwho = "parked" /\ fpages = 0 /\ fpc = "parked" /\ fafter = 0 /\ fattempt = 0 /\ facc = <<>> /\ fhist = <<>> /\ fsleeps = <<>> /\ fsent = 0 /\ fgot = 0 /\ fdecision = "none" /\ fslept = FALSE /\ ferr = 0 /\ fperm = FALSE
    /\ rlist = <<>> /\ rseen = {} /\ rout = <<>>
    /\ alist = <<>> /\ adata = <<>> /\ apc = "parked"
    /\ cresult = <<>> /\ clast = <<>> /\ cseen = 0
    /\ lwho = "parked" /\ lsize = 0 /\ lbatch = 0 /\ lidx = 0 /\ ldata = <<>> /\ llast_err = <<>> /\ lpc = "parked" /\ lreq = <<>> /\ lused = <<>> /\ lowners = {} /\ lerr = <<>>
    /\ dprog = "parked" /\ dfile = <<>> /\ dpc = "parked" /\ dweek = "" /\ dmem = {} /\ dbefore = <<>> /\ dwrites = 0 /\ druns = 0

\* get_all_owners reads one owner record: owners_map[owner_id] = name
ResolveOwnerName ==
    /\ npc \in {"idle", "written"}
    /\ ncount < MaxOwnerRecs
    /\ \E id \in OwnerRecIds, f \in FirstNames, l \in LastNames, m \in Emails :
        LET o == [id |-> id, firstName |-> f, lastName |-> l, email |-> m] IN
        /\ nrec' = o
        /\ nname' = DisplayName(o)
    /\ npc' = "resolved"
    /\ ncount' = ncount + 1
    /\ UNCHANGED ntitle
    /\ UNCHANGED <<varsProduct, varsOwner, varsFetch, varsRows, varsAgg, varsAssoc, varsLookup, varsDisk>>

\* the name is the key of a deal of the owner in the aggregation and the title
\* given to ensure_sheet, where safe.replace needs a string
UseOwnerName ==
    /\ npc = "resolved"
    /\ IF nname.none
       THEN /\ npc' = "AttributeError"
            /\ UNCHANGED ntitle
       ELSE /\ npc' = "written"
            /\ ntitle' = ensure_sheet(<<>>, nname.s).name
    /\ UNCHANGED <<nrec, nname, ncount>>
    /\ UNCHANGED <<varsProduct, varsOwner, varsFetch, varsRows, varsAgg, varsAssoc, varsLookup, varsDisk>>

NextNames ==
    \/ ResolveOwnerName
    \/ UseOwnerName

SpecNames == InitNames /\ [][NextNames]_vars

\* a field that holds something: a string that is not blank
Given(f) == f.k = "str" /\ Strip(f.v) # <<>>
TextOf(f) == IF Given(f) THEN f.v ELSE <<>>

\* C14: whatever fields of an owner record are missing, null or blank, the name
\* is first+last, else the email, else a placeholder built from the id; it is
\* always a non-empty string and the run does not fail on it.
C14_NameAlwaysResolved ==
    npc # "idle" =>
        LET full == Strip(TextOf(nrec.firstName) \o <<" ">> \o TextOf(nrec.lastName)) IN
        /\ ~nname.none
        /\ nname.s # <<>>
        /\ nname.s = (IF full # <<>> THEN full
                      ELSE IF Given(nrec.email) THEN nrec.email.v
                      ELSE OwnerPlaceholder(nrec.id))
        /\ npc # "AttributeError"

\* the part of C14 the code keeps: records whose first and last name are not
\* null and whose email is missing or holds an address
C14_NameResolvedForStrings ==
    (npc # "idle" /\ nrec.firstName.k # "null" /\ nrec.lastName.k # "null"
        /\ (nrec.email.k = "missing" \/ Given(nrec.email))) =>
        LET full == Strip(TextOf(nrec.firstName) \o <<" ">> \o TextOf(nrec.lastName)) IN
        /\ ~nname.none
        /\ nname.s = (IF full # <<>> THEN full
                      ELSE IF Given(nrec.email) THEN nrec.email.v
                      ELSE OwnerPlaceholder(nrec.id))
        /\ npc # "AttributeError"

\* C15: a run that writes an owner for whom the workbook already holds a sheet
\* reuses that sheet and creates no other one, whatever the owner's name.
C15_OneSheetPerOwner ==
    [][\A n \in OwnerNames :
          (n \in odone' /\ n \notin odone
              /\ Truncate(SafeTitle(n), TitleLimit) \in DOMAIN owb)
          => DOMAIN owb' = DOMAIN owb]_vars

\* the part of C15 the code keeps: owners whose sheet title is not truncated
C15_ShortNamesReuseSheet ==
    [][\A n \in OwnerNames :
          (n \in odone' /\ n \notin odone
              /\ Len(SafeTitle(n)) <= TitleLimit
              /\ SafeTitle(n) \in DOMAIN owb)
          => DOMAIN owb' = DOMAIN owb]_vars

\* the delay of the i-th retry of a request when the count starts anew with each
\* request: the owner/stage report counts before it sleeps, hubspot_request after
DelayOfRetry(who, i) ==
    IF who = "list_all_deals" THEN ProductSleep(i - 1) ELSE BackoffSleep(i)
CapOf(who) == IF who = "list_all_deals" THEN ProductCap ELSE BackoffCap

\* C16: in every retry loop the delays of one request are min(2^attempt, cap)
\* with attempt counting the failures of that request only: they never exceed
\* the cap, never decrease, and the first retry of a later page sleeps as long
\* as the first retry of the first page.
C16_BackoffCountsPerRequest ==
    \A i \in 1..Len(fsleeps) :
        /\ fsleeps[i] = DelayOfRetry(fwho, i)
        /\ fsleeps[i] <= CapOf(fwho)
        /\ i > 1 => fsleeps[i - 1] <= fsleeps[i]

\* the part of C16 the code keeps: fetch_deals and hubspot_request count per
\* request, and the delays of get_all_owners stay under the cap and never decrease
C16_BackoffOfResettingLoops ==
    \A i \in 1..Len(fsleeps) :
        /\ fwho # "get_all_owners" => fsleeps[i] = DelayOfRetry(fwho, i)
        /\ fsleeps[i] <= CapOf(fwho)
        /\ i > 1 => fsleeps[i - 1] <= fsleeps[i]

====
